---------------------------- MODULE Spec2Model ----------------------------
(***************************************************************************)
(* Model of the buffering engine of gin-queues (src/main.go): the Job with *)
(* its sharded Queues, Job.Push (called concurrently by request handlers), *)
(* Job.Run (the single background goroutine), Job.flush, Queue.Push,       *)
(* Queue.Len, Queue.Clear and the Storage.Save calls the flush makes.      *)
(*                                                                         *)
(* A record is the pointer &r that Job.Push takes of its own copy of the   *)
(* payload (main.go:107-110): every Push call has a fresh one, so a record *)
(* is identified by the number of the Push call that made it.  The payload *)
(* (Name) is opaque to the engine and is not modelled.                     *)
(***************************************************************************)
EXTENDS Integers, Sequences, FiniteSets, TLC

(***************************************************************************)
(* Bounds of the model.                                                    *)
(*   QueueBits  : the model has 2^QueueBits shards (the source has 16 =    *)
(*                2^4, main.go:93), scaled down.                           *)
(*   NumPushers : concurrent callers of Job.Push.                          *)
(*   MaxPushes  : Job.Push calls in one behaviour.                         *)
(*   MaxTicks   : ticker firings handled in one behaviour.                 *)
(*   MaxErrors  : Save calls that return an error in one behaviour.        *)
(*   MaxChunks  : SpecLoaded starts with up to about MaxChunks full chunks *)
(*                of records in every shard.                               *)
(*   MaxBadRequests : requests with a malformed body in one behaviour of   *)
(*                SpecHandler.                                             *)
(*   MaxOtherClears : Queue.Clear calls made by a second caller in one     *)
(*                behaviour of SpecTwoClears.                              *)
(***************************************************************************)
QueueBits == 1
NumPushers == 2
MaxPushes == 3
MaxTicks == 1
MaxErrors == 1
MaxChunks == 2
MaxBadRequests == 1
MaxOtherClears == 1

\* batchInsertSize = 1000 (main.go:142)
BatchInsertMax == 1000

\* atomic.Uint32 is 32 bits wide.  The model keeps the full width as two
\* 16-bit halves, c.hi * HalfMod + c.lo (TLC's integers stop at
\* 2^31 - 1).
HalfMod == 65536

\* c.JSON(200, ...) (main.go:51)
StatusOK == 200

VARIABLES
    enabled,    \* Job.enabled (atomic.Bool)
    qIndex,     \* Job.qIndex (atomic.Uint32)
    queues,     \* Job.queues: queues[i] is Queue.items of shard i
    pushPc,     \* position of each Job.Push caller
    pushRec,    \* the record (&r) of the caller's current Push call
    pushIdx,    \* idx computed by the caller's current Push call
    ret,        \* ret[c]: what Push call c returned ("running" until it does)
    pushed,     \* history: pushed[i] is every record appended to shard i
    resp,       \* resp[c]: the status the /ping handler of call c answered
    badRequests,\* requests answered 400 before any Push call
    runPc,      \* position of the Job.Run goroutine
    final,      \* Run is in its ctx.Done() branch
    k,          \* flush: index of the queue being handled
    length,     \* Queue.Clear: the local `length`
    rows,       \* flush: the local `rows`
    ctxDone,    \* the ctx passed to Job.Run is cancelled
    jobDone,    \* Job.Context is cancelled (job.Done() is closed)
    mainPc,     \* main: waiting at lines 54-55, or released
    ticks,      \* ticker firings handled so far
    cycle,      \* flush calls started so far
    atStart,    \* history: the Push calls when the current/last flush started
    seen,       \* history: q.items when Queue.Clear read its length
    drained,    \* history: the slices Queue.Clear returned to flush
    saved,      \* history: the Storage.Save calls, in call order
    other       \* a caller of Queue.Clear other than Run's flush

vars == <<enabled, qIndex, queues, pushPc, pushRec, pushIdx, ret, pushed,
          resp, badRequests, runPc, final, k, length, rows, ctxDone, jobDone,
          mainPc, ticks, cycle, atStart, seen, drained, saved, other>>

pushVars == <<pushPc, pushRec, pushIdx, ret, pushed, resp, badRequests>>
flushVars == <<k, length, rows, cycle, atStart, seen, drained, saved>>

Pushers == 1..NumPushers

\* numQueues := 16 in the source; 2^QueueBits here.
numQueues == 2 ^ QueueBits

\* qMask: uint32(numQueues - 1)
qMask == numQueues - 1

QueueIds == 0..(numQueues - 1)

\* The & of two unsigned integers, bit by bit.
RECURSIVE BitAnd(_, _)
BitAnd(x, y) ==
    IF x = 0 \/ y = 0 THEN 0
    ELSE (x % 2) * (y % 2) + 2 * BitAnd(x \div 2, y \div 2)

\* atomic.NewUint32(0)
NewUint32 == [hi |-> 0, lo |-> 0]

\* Mutant: the counter stays at its largest value instead of wrapping.
IncSaturates(c) ==
    IF c.lo + 1 < HalfMod THEN [hi |-> c.hi, lo |-> c.lo + 1]
    ELSE IF c.hi + 1 < HalfMod THEN [hi |-> c.hi + 1, lo |-> 0]
    ELSE c

\* atomic.Uint32.Inc: the incremented value, modulo 2^32.
Inc(c) ==
    IF c.lo + 1 < HalfMod THEN [hi |-> c.hi, lo |-> c.lo + 1]
    ELSE [hi |-> (c.hi + 1) % HalfMod, lo |-> 0]

\* c & j.qMask: the mask is below 2^16, so only the low half takes part.
Masked(c) == BitAnd(c.lo, qMask)

\* No second caller of Queue.Clear has acted.
NoOther == [pc |-> "idle", queue |-> 0, length |-> 0, rows |-> << >>,
            calls |-> 0, drainsBefore |-> 0]

\* NewQueues: every queue starts with an empty items slice.
NewQueues == [i \in QueueIds |-> << >>]

Init ==
    /\ enabled = TRUE
    /\ qIndex = NewUint32
    /\ queues = NewQueues
    /\ pushPc = [p \in Pushers |-> "idle"]
    /\ pushRec = [p \in Pushers |-> 0]
    /\ pushIdx = [p \in Pushers |-> 0]
    /\ ret = << >>
    /\ pushed = NewQueues
    /\ resp = << >>
    /\ badRequests = 0
    /\ runPc = "select"
    /\ final = FALSE
    /\ k = 0
    /\ length = 0
    /\ rows = << >>
    /\ ctxDone = FALSE
    /\ jobDone = FALSE
    /\ mainPc = "waiting"
    /\ ticks = 0
    /\ cycle = 0
    /\ atStart = [calls |-> 0, inFlight |-> {}]
    /\ seen = << >>
    /\ drained = << >>
    /\ saved = << >>
    /\ other = NoOther

----------------------------------------------------------------------------
(* Job.Push, main.go:107-114, and Queue.Push, main.go:173-178 *)

\* The POST /ping handler after job.Push(r) (main.go:49-51): the value Push
\* returned is dropped and the handler answers 200.
HandlerStatus(err) == StatusOK

\* The handler when c.BindJSON fails (main.go:38-42): it answers 400 and
\* does not call Push.  (db is never nil after mustConnectDB, lines 44-47.)
HandlerBadRequest ==
    /\ badRequests < MaxBadRequests
    /\ badRequests' = badRequests + 1
    /\ UNCHANGED <<enabled, qIndex, queues, pushPc, pushRec, pushIdx, ret,
                   pushed, resp, runPc, final, ctxDone, jobDone, mainPc,
                   ticks>>
    /\ UNCHANGED flushVars
    /\ UNCHANGED other

\* A new call takes the lowest idle caller slot (idle callers are
\* interchangeable).
FreeSlot(p) ==
    /\ pushPc[p] = "idle"
    /\ \A q \in Pushers : q < p => pushPc[q] # "idle"

\* Push starts and loads enabled = true (line 108).
PushLoadEnabled(p) ==
    /\ FreeSlot(p)
    /\ Len(ret) < MaxPushes
    /\ enabled
    /\ pushPc' = [pushPc EXCEPT ![p] = "checked"]
    /\ pushRec' = [pushRec EXCEPT ![p] = Len(ret) + 1]
    /\ ret' = Append(ret, "running")
    /\ UNCHANGED <<enabled, qIndex, queues, pushIdx, runPc, final, ctxDone,
                   jobDone, mainPc, ticks>>
    /\ UNCHANGED flushVars
    /\ UNCHANGED other
    /\ resp' = Append(resp, 0)
    /\ UNCHANGED <<pushed, badRequests>>

\* Mutant: Push does not look at enabled and accepts the record.
PushDisabledAccepts(p) ==
    /\ FreeSlot(p)
    /\ Len(ret) < MaxPushes
    /\ ~enabled
    /\ pushPc' = [pushPc EXCEPT ![p] = "checked"]
    /\ pushRec' = [pushRec EXCEPT ![p] = Len(ret) + 1]
    /\ ret' = Append(ret, "running")
    /\ UNCHANGED <<enabled, qIndex, queues, pushIdx, runPc, final, ctxDone,
                   jobDone, mainPc, ticks>>
    /\ UNCHANGED flushVars
    /\ UNCHANGED other
    /\ resp' = Append(resp, 0)
    /\ UNCHANGED <<pushed, badRequests>>

\* Mutant: Push takes its counter value before it looks at enabled.
PushDisabledRoutes(p) ==
    /\ FreeSlot(p)
    /\ Len(ret) < MaxPushes
    /\ ~enabled
    /\ qIndex' = Inc(qIndex)
    /\ ret' = Append(ret, "errJobDisabled")
    /\ UNCHANGED <<enabled, queues, pushPc, pushRec, pushIdx, runPc, final,
                   ctxDone, jobDone, mainPc, ticks>>
    /\ UNCHANGED flushVars
    /\ UNCHANGED other
    /\ resp' = Append(resp, HandlerStatus("errJobDisabled"))
    /\ UNCHANGED <<pushed, badRequests>>

\* Push starts, loads enabled = false and returns errJobDisabled (line 113).
PushDisabled(p) ==
    /\ FreeSlot(p)
    /\ Len(ret) < MaxPushes
    /\ ~enabled
    /\ ret' = Append(ret, "errJobDisabled")
    /\ UNCHANGED <<enabled, qIndex, queues, pushPc, pushRec, pushIdx, runPc,
                   final, ctxDone, jobDone, mainPc, ticks>>
    /\ UNCHANGED flushVars
    /\ UNCHANGED other
    /\ resp' = Append(resp, HandlerStatus("errJobDisabled"))
    /\ UNCHANGED <<pushed, badRequests>>

\* idx := j.qIndex.Inc() & j.qMask (line 109).
PushRoute(p) ==
    /\ pushPc[p] = "checked"
    /\ qIndex' = Inc(qIndex)
    /\ pushIdx' = [pushIdx EXCEPT ![p] = Masked(Inc(qIndex))]
    /\ pushPc' = [pushPc EXCEPT ![p] = "routed"]
    /\ UNCHANGED <<enabled, queues, pushRec, ret, runPc, final, ctxDone,
                   jobDone, mainPc, ticks>>
    /\ UNCHANGED flushVars
    /\ UNCHANGED other
    /\ UNCHANGED <<pushed, resp, badRequests>>

\* Queue.Push: q.items = append(q.items, r), under the write lock.
\* Mutant: the record is put at the head of items.
QueuePushFront(items, r) == <<r>> \o items

\* Mutant: a queue that holds a record refuses the next one.
QueuePushBounded(items, r) == IF Len(items) >= 1 THEN items ELSE Append(items, r)

QueuePush(items, r) == Append(items, r)

\* return j.queues[idx].Push(&r) (line 110): the append, and nil returned.
PushAppend(p) ==
    /\ pushPc[p] = "routed"
    /\ queues' = [queues EXCEPT ![pushIdx[p]] = QueuePush(@, pushRec[p])]
    /\ pushed' = [pushed EXCEPT ![pushIdx[p]] = Append(@, pushRec[p])]
    /\ ret' = [ret EXCEPT ![pushRec[p]] = "nil"]
    /\ resp' = [resp EXCEPT ![pushRec[p]] = HandlerStatus("nil")]
    /\ UNCHANGED badRequests
    /\ pushPc' = [pushPc EXCEPT ![p] = "idle"]
    /\ pushRec' = [pushRec EXCEPT ![p] = 0]
    /\ pushIdx' = [pushIdx EXCEPT ![p] = 0]
    /\ UNCHANGED <<enabled, qIndex, runPc, final, ctxDone, jobDone, mainPc,
                   ticks>>
    /\ UNCHANGED flushVars
    /\ UNCHANGED other

----------------------------------------------------------------------------
(* Job.Run, main.go:116-135 *)

\* The Push calls at the moment flush is called: how many have started, and
\* the records of those that have loaded enabled = true and not yet returned.
FlushStart ==
    [calls |-> Len(ret),
     inFlight |-> {pushRec[p] : p \in {q \in Pushers : pushPc[q] # "idle"}}]

\* case <-ticker.C: j.flush(); continue (lines 124-126).
RunTick ==
    /\ runPc = "select"
    /\ ticks < MaxTicks
    /\ ticks' = ticks + 1
    /\ runPc' = "len"
    /\ k' = 0
    /\ cycle' = cycle + 1
    /\ atStart' = FlushStart
    /\ UNCHANGED <<enabled, qIndex, queues, final, length, rows, ctxDone,
                   jobDone, mainPc, seen, drained, saved>>
    /\ UNCHANGED pushVars
    /\ UNCHANGED other

\* Mutant: the ctx.Done() branch flushes without disabling the engine.
RunCtxDoneNoStore ==
    /\ runPc = "select"
    /\ ctxDone
    /\ final' = TRUE
    /\ runPc' = "len"
    /\ k' = 0
    /\ cycle' = cycle + 1
    /\ atStart' = FlushStart
    /\ UNCHANGED <<enabled, qIndex, queues, length, rows, ctxDone, jobDone,
                   mainPc, ticks, seen, drained, saved>>
    /\ UNCHANGED pushVars
    /\ UNCHANGED other

\* Mutant: the ctx.Done() branch calls finish() before the final flush.
RunCtxDoneFinishFirst ==
    /\ runPc = "select"
    /\ ctxDone
    /\ enabled' = FALSE
    /\ jobDone' = TRUE
    /\ final' = TRUE
    /\ runPc' = "len"
    /\ k' = 0
    /\ cycle' = cycle + 1
    /\ atStart' = FlushStart
    /\ UNCHANGED <<qIndex, queues, length, rows, ctxDone, mainPc, ticks, seen,
                   drained, saved>>
    /\ UNCHANGED pushVars
    /\ UNCHANGED other

\* Mutant: the ctx.Done() branch is taken while a tick flush is running, as
\* if the tick flush had been started on a goroutine of its own.
RunCtxDoneAsync ==
    /\ runPc \in {"select", "len", "lock", "save", "saving"}
    /\ ~final
    /\ ctxDone
    /\ enabled' = FALSE
    /\ final' = TRUE
    /\ runPc' = "len"
    /\ k' = 0
    /\ cycle' = cycle + 1
    /\ atStart' = FlushStart
    /\ UNCHANGED <<qIndex, queues, length, rows, ctxDone, jobDone, mainPc,
                   ticks, seen, drained, saved>>
    /\ UNCHANGED pushVars
    /\ UNCHANGED other

\* case <-ctx.Done(): j.enabled.Store(false); j.flush() is entered
\* (lines 127-129; its first access to shared state is the Len of queue 0).
RunCtxDone ==
    /\ runPc = "select"
    /\ ctxDone
    /\ enabled' = FALSE
    /\ final' = TRUE
    /\ runPc' = "len"
    /\ k' = 0
    /\ cycle' = cycle + 1
    /\ atStart' = FlushStart
    /\ UNCHANGED <<qIndex, queues, length, rows, ctxDone, jobDone, mainPc,
                   ticks, seen, drained, saved>>
    /\ UNCHANGED pushVars
    /\ UNCHANGED other

\* Mutant: Run returns without the deferred finish().
RunFinishNoCancel ==
    /\ runPc = "finish"
    /\ runPc' = "exited"
    /\ UNCHANGED <<enabled, qIndex, queues, final, k, length, rows, ctxDone,
                   jobDone, mainPc, ticks, cycle, atStart, seen, drained,
                   saved>>
    /\ UNCHANGED pushVars
    /\ UNCHANGED other

\* break, log, and the deferred j.finish() (lines 119, 131-135).
RunFinish ==
    /\ runPc = "finish"
    /\ jobDone' = TRUE
    /\ runPc' = "exited"
    /\ UNCHANGED <<enabled, qIndex, queues, final, k, length, rows, ctxDone,
                   mainPc, ticks, cycle, atStart, seen, drained, saved>>
    /\ UNCHANGED pushVars
    /\ UNCHANGED other

----------------------------------------------------------------------------
(* Job.flush, main.go:137-154, with Queue.Clear and Queue.Len, 180-193 *)

\* Mutant: Len reports one record more than q.items holds.
QueueLenOffByOne(items) == Len(items) + 1

\* Queue.Len: len(q.items), under the read lock.
QueueLen(items) == Len(items)

\* Mutant: Clear returns one record fewer than it removes.
ClearTakenShort(items, n) == SubSeq(items, 1, n - 1)

\* Mutant: Clear returns the whole of items, not items[:length].
ClearTakenAll(items, n) == items

\* Queue.Clear, line 184: qs := q.items[:length]
ClearTaken(items, n) == SubSeq(items, 1, n)

\* Mutant: Clear returns the records and keeps them in the queue too.
ClearLeftAll(items, n) == items

\* Mutant: Clear empties the queue, whatever was pushed since the Len.
ClearLeftNone(items, n) == << >>

\* Queue.Clear, line 185: q.items = q.items[length:]
ClearLeft(items, n) == SubSeq(items, n + 1, Len(items))

\* Mutant: full chunks are one record short of the limit.
batchInsertSizeShort(rs) ==
    IF Len(rs) < BatchInsertMax THEN Len(rs) ELSE BatchInsertMax - 1

\* Lines 142-145: batchInsertSize = 1000, or len(rows) if that is less.
batchInsertSize(rs) ==
    IF Len(rs) < BatchInsertMax THEN Len(rs) ELSE BatchInsertMax

\* Mutant: the chunk loop runs its body once before testing len(rows).
AfterRowsDoWhile(rs) ==
    IF Len(rs) > 0 \/ runPc = "lock" THEN "save"
    ELSE IF k + 1 < numQueues THEN "len"
    ELSE IF final THEN "finish"
    ELSE "select"

\* Mutant: the ticker branch has no continue and falls through to break.
AfterRowsNoContinue(rs) ==
    IF Len(rs) > 0 THEN "save"
    ELSE IF k + 1 < numQueues THEN "len"
    ELSE "finish"

\* Where flush goes when the for len(rows) > 0 loop sees `rs`: to the next
\* Save call, to the next queue, or back to Run.
AfterRows(rs) ==
    IF Len(rs) > 0 THEN "save"
    ELSE IF k + 1 < numQueues THEN "len"
    ELSE IF final THEN "finish"
    ELSE "select"

\* The loop variable k after that: the next queue, or dead (0) on return.
NextK(rs) ==
    IF Len(rs) > 0 THEN k
    ELSE IF k + 1 < numQueues THEN k + 1
    ELSE 0

\* Clear, line 181: length := q.Len()
ClearLen ==
    /\ runPc = "len"
    /\ length' = QueueLen(queues[k])
    /\ seen' = queues[k]
    /\ runPc' = "lock"
    /\ UNCHANGED <<enabled, qIndex, queues, final, k, rows, ctxDone, jobDone,
                   mainPc, ticks, cycle, atStart, drained, saved>>
    /\ UNCHANGED pushVars
    /\ UNCHANGED other

\* Clear, lines 182-186, under the write lock; flush gets rows (line 140).
\* With length above len(q.items) the slice expression q.items[length:] of
\* line 185 panics (so does q.items[:length] of line 184 when length is
\* above the capacity): q.items is not assigned, nothing recovers the panic
\* and the process ends.
ClearLocked ==
    /\ runPc = "lock"
    /\ IF length <= Len(queues[k])
       THEN /\ rows' = ClearTaken(queues[k], length)
            /\ queues' = [queues EXCEPT ![k] = ClearLeft(@, length)]
            /\ drained' = Append(drained,
                               [cycle |-> cycle, queue |-> k,
                                rows |-> ClearTaken(queues[k], length),
                                left |-> ClearLeft(queues[k], length)])
            /\ runPc' = AfterRows(rows')
            /\ k' = NextK(rows')
            /\ length' = 0
            /\ seen' = << >>
       ELSE /\ runPc' = "panic"
            /\ UNCHANGED <<rows, queues, drained, k, length, seen>>
    /\ UNCHANGED <<enabled, qIndex, final, ctxDone, jobDone, mainPc, ticks,
                   cycle, atStart, saved>>
    /\ UNCHANGED pushVars
    /\ UNCHANGED other

\* Mutant: Save is given the ctx that Run was called with.
SaveContextIsRunCtx == ctxDone

\* Line 148: the context given to Save is j.Context, made in NewJob from
\* context.Background() (line 101) and cancelled by finish() alone; this is
\* whether it is cancelled.
SaveContextCancelled == jobDone

\* Line 148: j.Storage.Save(j.Context, rows[:batchInsertSize]) is called.
SaveCall ==
    /\ runPc = "save"
    /\ saved' = Append(saved, [cycle |-> cycle, queue |-> k,
                               rows |-> SubSeq(rows, 1, batchInsertSize(rows)),
                               ctxCancelled |-> SaveContextCancelled,
                               status |-> "running"])
    /\ runPc' = "saving"
    /\ UNCHANGED <<enabled, qIndex, queues, final, k, length, rows, ctxDone,
                   jobDone, mainPc, ticks, cycle, atStart, seen, drained>>
    /\ UNCHANGED pushVars
    /\ UNCHANGED other

NumErrors == Cardinality({i \in 1..Len(saved) : saved[i].status = "error"})

\* Mutant: flush returns at the first Save error.
SaveReturnAborts(err) ==
    /\ runPc = "saving"
    /\ err => NumErrors < MaxErrors
    /\ saved' = [saved EXCEPT ![Len(saved)].status =
                                  IF err THEN "error" ELSE "ok"]
    /\ rows' = IF err THEN << >>
               ELSE SubSeq(rows, batchInsertSize(rows) + 1, Len(rows))
    /\ runPc' = IF err THEN (IF final THEN "finish" ELSE "select")
                ELSE AfterRows(rows')
    /\ k' = IF err THEN 0 ELSE NextK(rows')
    /\ UNCHANGED <<enabled, qIndex, queues, final, length, ctxDone, jobDone,
                   mainPc, ticks, cycle, atStart, seen, drained>>
    /\ UNCHANGED pushVars
    /\ UNCHANGED other

\* Lines 148-151: Save returns (err is only logged);
\* rows = rows[batchInsertSize:]
SaveReturn(err) ==
    /\ runPc = "saving"
    /\ err => NumErrors < MaxErrors
    /\ saved' = [saved EXCEPT ![Len(saved)].status =
                                  IF err THEN "error" ELSE "ok"]
    /\ rows' = SubSeq(rows, batchInsertSize(rows) + 1, Len(rows))
    /\ runPc' = AfterRows(rows')
    /\ k' = NextK(rows')
    /\ UNCHANGED <<enabled, qIndex, queues, final, length, ctxDone, jobDone,
                   mainPc, ticks, cycle, atStart, seen, drained>>
    /\ UNCHANGED pushVars
    /\ UNCHANGED other

----------------------------------------------------------------------------
(* main, main.go:32-33 and 54-55: the signal context and the two waits *)

\* The signal context given to Run is cancelled (sigctx, line 32).
CtxCancel ==
    /\ ~ctxDone
    /\ ctxDone' = TRUE
    /\ UNCHANGED <<enabled, qIndex, queues, runPc, final, jobDone, mainPc,
                   ticks>>
    /\ UNCHANGED pushVars
    /\ UNCHANGED other
    /\ UNCHANGED flushVars

\* <-ctx.Done(); <-job.Done() (lines 54-55): both channels are closed.
MainReleased ==
    /\ mainPc = "waiting"
    /\ ctxDone
    /\ jobDone
    /\ mainPc' = "released"
    /\ UNCHANGED <<enabled, qIndex, queues, runPc, final, ctxDone, jobDone,
                   ticks>>
    /\ UNCHANGED pushVars
    /\ UNCHANGED other
    /\ UNCHANGED flushVars

----------------------------------------------------------------------------

Pushing ==
    \E p \in Pushers :
        PushLoadEnabled(p) \/ PushDisabled(p) \/ PushRoute(p) \/ PushAppend(p)

Running == RunTick \/ RunCtxDone \/ RunFinish

Flushing == ClearLen \/ ClearLocked \/ SaveCall \/ (\E err \in BOOLEAN : SaveReturn(err))

Main == CtxCancel \/ MainReleased

Next == Pushing \/ Running \/ Flushing \/ Main

Spec == Init /\ [][Next]_vars

----------------------------------------------------------------------------
(* The engine loaded by n sequential Push calls before any flush, as in    *)
(* TestJob (part_000:31-33), then run without further pushes.  The loads   *)
(* lie around whole numbers of full chunks per shard.                      *)

LoadSizes ==
    {0, 1, numQueues + 1}
    \cup {numQueues * BatchInsertMax * j + d :
             j \in 1..MaxChunks, d \in {0 - 1, 0, 1, numQueues}}

\* The state n sequential Job.Push calls leave: call c has counter value c
\* and lands at the tail of shard c & qMask.
LoadedQueues(n) ==
    [i \in QueueIds |->
        SelectSeq([c \in 1..n |-> c], LAMBDA c : BitAnd(c, qMask) = i)]

InitLoaded ==
    \E n \in LoadSizes :
        /\ enabled = TRUE
        /\ qIndex = [hi |-> 0, lo |-> n]
        /\ queues = LoadedQueues(n)
        /\ pushPc = [p \in Pushers |-> "idle"]
        /\ pushRec = [p \in Pushers |-> 0]
        /\ pushIdx = [p \in Pushers |-> 0]
        /\ ret = [c \in 1..n |-> "nil"]
        /\ pushed = LoadedQueues(n)
        /\ resp = [c \in 1..n |-> StatusOK]
        /\ badRequests = 0
        /\ runPc = "select"
        /\ final = FALSE
        /\ k = 0
        /\ length = 0
        /\ rows = << >>
        /\ ctxDone = FALSE
        /\ jobDone = FALSE
        /\ mainPc = "waiting"
        /\ ticks = 0
        /\ cycle = 0
        /\ atStart = [calls |-> 0, inFlight |-> {}]
        /\ seen = << >>
        /\ drained = << >>
        /\ saved = << >>
        /\ other = NoOther

NextLoaded == Running \/ Flushing \/ Main

SpecLoaded == InitLoaded /\ [][NextLoaded]_vars

\* A second goroutine calling Queue.Clear (lines 180-187) on queue q while
\* Run's flush may be inside its own Clear: line 181, length := q.Len().
OtherClearLen(q) ==
    /\ other.pc = "idle"
    /\ other.calls < MaxOtherClears
    /\ other' = [other EXCEPT !.pc = "lock",
                              !.queue = q,
                              !.length = QueueLen(queues[q]),
                              !.calls = @ + 1,
                              !.drainsBefore = IF other.calls = 0
                                               THEN Len(drained) ELSE @]
    /\ UNCHANGED <<enabled, qIndex, queues, runPc, final, ctxDone, jobDone,
                   mainPc, ticks>>
    /\ UNCHANGED pushVars
    /\ UNCHANGED flushVars

\* Its lines 182-186, under the write lock, with the same panic when its
\* length is above len(q.items).
OtherClearLocked ==
    /\ other.pc = "lock"
    /\ IF other.length <= Len(queues[other.queue])
       THEN /\ queues' = [queues EXCEPT ![other.queue] =
                                           ClearLeft(@, other.length)]
            /\ other' = [other EXCEPT
                             !.pc = "idle",
                             !.rows = ClearTaken(queues[other.queue],
                                                 other.length),
                             !.length = 0]
       ELSE /\ other' = [other EXCEPT !.pc = "panic"]
            /\ UNCHANGED queues
    /\ UNCHANGED <<enabled, qIndex, runPc, final, ctxDone, jobDone, mainPc,
                   ticks>>
    /\ UNCHANGED pushVars
    /\ UNCHANGED flushVars

OtherClear == (\E q \in QueueIds : OtherClearLen(q)) \/ OtherClearLocked

\* The engine with a second caller of Queue.Clear next to Run's flush.
NextTwoClears == Next \/ OtherClear

SpecTwoClears == Init /\ [][NextTwoClears]_vars

\* The counter over its whole range.  qIndex is never reset, so an engine
\* whose shards have all been flushed can hold any counter value; these are
\* the fresh value, the value two pushes before the carry out of the low
\* sixteen bits, and the value two pushes before the wrap of the uint32.
WrapStarts ==
    {NewUint32,
     [hi |-> 0, lo |-> HalfMod - 2],
     [hi |-> HalfMod - 1, lo |-> HalfMod - 2]}

InitWrap ==
    /\ enabled = TRUE
    /\ qIndex \in WrapStarts
    /\ queues = NewQueues
    /\ pushPc = [p \in Pushers |-> "idle"]
    /\ pushRec = [p \in Pushers |-> 0]
    /\ pushIdx = [p \in Pushers |-> 0]
    /\ ret = << >>
    /\ pushed = NewQueues
    /\ resp = << >>
    /\ badRequests = 0
    /\ runPc = "select"
    /\ final = FALSE
    /\ k = 0
    /\ length = 0
    /\ rows = << >>
    /\ ctxDone = FALSE
    /\ jobDone = FALSE
    /\ mainPc = "waiting"
    /\ ticks = 0
    /\ cycle = 0
    /\ atStart = [calls |-> 0, inFlight |-> {}]
    /\ seen = << >>
    /\ drained = << >>
    /\ saved = << >>
    /\ other = NoOther

\* Concurrent Push calls on an enabled engine that is not being drained.
NextWrap ==
    \E p \in Pushers : PushLoadEnabled(p) \/ PushRoute(p) \/ PushAppend(p)

SpecWrap == InitWrap /\ [][NextWrap]_vars

\* The engine with the whole /ping handler: requests whose body does not
\* bind are answered without reaching Push.
NextHandler == Next \/ HandlerBadRequest

SpecHandler == Init /\ [][NextHandler]_vars

\* Scheduling: the select of Run takes its ctx.Done() case at some time once
\* that case stays ready at every return to the select (Go picks among the
\* ready cases at random); the goroutines of Run and main keep running; and
\* every Save call returns.
Fairness ==
    /\ SF_vars(RunCtxDone)
    /\ WF_vars(Flushing)
    /\ WF_vars(RunFinish)
    /\ WF_vars(MainReleased)

FairSpec == Spec /\ Fairness

----------------------------------------------------------------------------
(* Observations on the histories *)

Range(f) == {f[i] : i \in DOMAIN f}

NoDuplicates(f) == Cardinality(Range(f)) = Len(f)

AllIdle == \A p \in Pushers : pushPc[p] = "idle"

\* The Push calls that have returned nil.
Accepted == {c \in DOMAIN ret : ret[c] = "nil"}

\* The records passed to Save by calls 1..n, in call order.
RECURSIVE SavedUpTo(_)
SavedUpTo(n) == IF n = 0 THEN << >> ELSE SavedUpTo(n - 1) \o saved[n].rows

SavedRows == SavedUpTo(Len(saved))

\* The sum of the lengths of the slices passed to Save by calls 1..n.
RECURSIVE SavedLenUpTo(_)
SavedLenUpTo(n) ==
    IF n = 0 THEN 0 ELSE SavedLenUpTo(n - 1) + Len(saved[n].rows)

\* The Save calls that hold record c.
CallsHolding(c) == {i \in DOMAIN saved : c \in Range(saved[i].rows)}

\* The shards in which record c is pending.
ShardsHolding(c) == {i \in QueueIds : c \in Range(queues[i])}

\* The records pending in shards 0..n-1, shard after shard.
RECURSIVE PendingUpTo(_)
PendingUpTo(n) ==
    IF n = 0 THEN << >> ELSE PendingUpTo(n - 1) \o queues[n - 1]

PendingRows == PendingUpTo(numQueues)

NoSaveError == \A i \in DOMAIN saved : saved[i].status # "error"

\* No flush is running: Run waits in its select, or is past its last flush.
FlushIdle == runPc \in {"select", "finish", "exited"}

\* A flush has run to its end, it started with no Push call in progress,
\* and no Push call has started since.
QuietFlushDone ==
    /\ FlushIdle
    /\ cycle >= 1
    /\ atStart.inFlight = {}
    /\ atStart.calls = Len(ret)

----------------------------------------------------------------------------
(* C1 *)

\* C1: when N Push calls have completed and a flush then runs to its end
\* with no Save error, the lengths of the slices passed to Save sum to N and
\* every pushed record is in exactly one Save call, once.
C1_FlushSavesEveryPush ==
    (QuietFlushDone /\ NoSaveError) =>
        /\ SavedLenUpTo(Len(saved)) = Cardinality(Accepted)
        /\ Accepted = DOMAIN ret
        /\ \A c \in Accepted : Cardinality(CallsHolding(c)) = 1
        /\ NoDuplicates(SavedRows)

\* Three pushes completed, then the first flush ran and saved from both
\* shards.
C1_Witness ==
    /\ QuietFlushDone /\ NoSaveError
    /\ cycle = 1
    /\ Len(ret) = 3
    /\ Len(saved) = 2

----------------------------------------------------------------------------
(* C2, C3 *)

\* The step in which Queue.Clear takes the write lock, splits q.items and
\* returns.
ClearReturns == runPc = "lock" /\ runPc' # "lock"

\* C2: whatever Push calls interleave with a Clear, the slice Clear returns
\* followed by the items it leaves is exactly q.items as it was when Clear
\* took the write lock, and no record is in it twice: every record pushed so
\* far is in the one or the other, never both, never neither.
C2_ClearPartitions ==
    [][ClearReturns =>
          /\ rows' \o queues'[k] = queues[k]
          /\ NoDuplicates(rows' \o queues'[k])
          /\ \A c \in Accepted : ShardsHolding(c) = {k} =>
                 (c \in Range(rows')) # (c \in Range(queues'[k]))]_vars

\* A Clear returned one record and left another, pushed while it ran.
C2_Witness ==
    \E i \in DOMAIN drained :
        Len(drained[i].rows) > 0 /\ Len(drained[i].left) > 0

\* C3 as stated: right after Clear returns the queue's length is zero.
C3_Original ==
    \A i \in DOMAIN drained : QueueLen(drained[i].left) = 0

\* C3, amended: right after Clear returns, the queue holds exactly the
\* records pushed after Clear read the length, in push order, and Clear has
\* returned exactly the records pending at that read; so its length is zero
\* when no Push appended between the read and the removal.
C3_ClearLeavesLaterPushes ==
    [][ClearReturns =>
          /\ rows' = seen
          /\ seen \o queues'[k] = queues[k]
          /\ (queues[k] = seen => QueueLen(queues'[k]) = 0)]_vars

\* A Clear left a record behind, and another Clear of a non-empty queue
\* left it empty.
C3_Witness ==
    /\ \E i \in DOMAIN drained : Len(drained[i].left) > 0
    /\ \E i \in DOMAIN drained :
           Len(drained[i].rows) > 0 /\ Len(drained[i].left) = 0

----------------------------------------------------------------------------
(* C4, C5, C6 *)

\* The step in which a Push call starts (and loads enabled).
PushStarts == Len(ret') > Len(ret)

\* C4: once enabled is false it stays false, and every Push call that
\* starts from then on returns errJobDisabled.
C4_DisabledIsPermanent ==
    /\ [][/\ ~enabled => ~enabled'
          /\ (~enabled /\ PushStarts) =>
                 ret'[Len(ret')] = "errJobDisabled"]_vars
    /\ [](final =>
            /\ ~enabled
            /\ \A c \in DOMAIN ret :
                   c > atStart.calls => ret[c] = "errJobDisabled")

\* Two Push calls were made after the store and were rejected.
C4_Witness ==
    /\ ~enabled
    /\ Cardinality({c \in DOMAIN ret : ret[c] = "errJobDisabled"}) >= 2

\* C5 as stated: once Done is signalled and no Push call is in progress,
\* every shard is empty and every accepted record has been passed to Save.
C5_Original ==
    (jobDone /\ AllIdle) =>
        /\ \A i \in QueueIds : queues[i] = << >>
        /\ \A c \in Accepted : CallsHolding(c) # {}

\* C5, amended: once Done is signalled and no Push call is in progress,
\* every accepted record has been passed to Save or is still pending in a
\* shard (not both), and only records of Push calls that were in progress
\* (had read enabled = true and not yet returned) when Run stored
\* enabled = false can still be pending.
C5_OnlyInFlightPushesMissFinalFlush ==
    (jobDone /\ AllIdle) =>
        \A c \in Accepted :
            \/ CallsHolding(c) # {} /\ ShardsHolding(c) = {}
            \/ /\ CallsHolding(c) = {}
               /\ Cardinality(ShardsHolding(c)) = 1
               /\ c \in atStart.inFlight

\* Done is signalled, no Push is in progress, one record went through the
\* final flush and another is left pending.
C5_Witness ==
    /\ jobDone /\ AllIdle
    /\ \E c \in Accepted : ShardsHolding(c) # {}
    /\ \E i \in DOMAIN saved : saved[i].cycle = cycle

\* The Clear calls flush number n has made on queue q.
ClearsOf(n, q) ==
    {i \in DOMAIN drained : drained[i].cycle = n /\ drained[i].queue = q}

\* C6: in the ctx.Done() branch enabled is false before the flush starts,
\* there is exactly one flush after the store and it handles every shard
\* once, Done is closed only when that flush has returned, and no Save call
\* is started (or still running) once Done is closed.
C6_ShutdownHandshake ==
    /\ final => ~enabled /\ cycle = ticks + 1
    /\ ~final => enabled /\ cycle = ticks /\ ~jobDone
    /\ runPc \in {"finish", "exited"} =>
           /\ final
           /\ \A q \in QueueIds : Cardinality(ClearsOf(cycle, q)) = 1
    /\ jobDone => runPc = "exited"
    /\ \A i \in DOMAIN saved :
           /\ ~saved[i].ctxCancelled
           /\ jobDone => saved[i].status # "running"

\* Done is closed after a final flush that passed records to Save.
C6_Witness ==
    /\ jobDone
    /\ \E i \in DOMAIN saved : saved[i].cycle = cycle

----------------------------------------------------------------------------
(* C7 *)

\* C7: once the ctx passed to Run is cancelled, Run eventually has taken
\* its ctx.Done() branch, finished the final flush and closed Done, and the
\* wait of main on job.Done() is over.
C7_ShutdownCompletes ==
    ctxDone ~> (runPc = "exited" /\ final /\ jobDone /\ mainPc = "released")

\* main was released after a shutdown whose final flush had records to save,
\* with a timer flush before it.
C7_Witness ==
    /\ mainPc = "released"
    /\ ticks >= 1
    /\ \E i \in DOMAIN saved : saved[i].cycle = cycle

----------------------------------------------------------------------------
(* C8, C9 *)

\* The Save calls flush number n has made for queue q, in call order.
SavesOf(n, q) ==
    SelectSeq([i \in DOMAIN saved |-> i],
              LAMBDA i : saved[i].cycle = n /\ saved[i].queue = q)

\* The records those calls were given, in call order.
RECURSIVE RowsOfCalls(_)
RowsOfCalls(is) ==
    IF is = << >> THEN << >>
    ELSE saved[Head(is)].rows \o RowsOfCalls(Tail(is))

\* Drain i is finished: flush has left the chunk loop of that drain.
DrainFinished(i) == i < Len(drained) \/ runPc \notin {"save", "saving"}

CeilDiv(m, d) == (m + d - 1) \div d

\* C8: for a drain of M records flush makes ceil(M/1000) Save calls, each
\* with 1 to 1000 records, and the slices of those calls, in call order,
\* make up the drained sequence.
C8_Chunking ==
    \A i \in DOMAIN drained :
        DrainFinished(i) =>
            LET calls == SavesOf(drained[i].cycle, drained[i].queue)
            IN  /\ Len(calls) = CeilDiv(Len(drained[i].rows), 1000)
                /\ \A j \in DOMAIN calls :
                       /\ Len(saved[calls[j]].rows) >= 1
                       /\ Len(saved[calls[j]].rows) <= 1000
                /\ RowsOfCalls(calls) = drained[i].rows

\* A drain of 2001 records was saved in three calls.
C8_Witness ==
    \E i \in DOMAIN drained :
        /\ DrainFinished(i)
        /\ Len(drained[i].rows) = 2001
        /\ Len(SavesOf(drained[i].cycle, drained[i].queue)) = 3

\* Flush number n has returned.
FlushReturned(n) == n < cycle \/ (n = cycle /\ FlushIdle)

\* Every Save call made for queue q so far, in call order.
AllSavesOf(q) ==
    SelectSeq([i \in DOMAIN saved |-> i], LAMBDA i : saved[i].queue = q)

\* The drained records of queue q that flush holds and has not yet passed
\* to Save.
HeldOf(q) ==
    IF k # q THEN << >>
    ELSE IF runPc = "save" THEN rows
    ELSE IF runPc = "saving"
         THEN SubSeq(rows, batchInsertSize(rows) + 1, Len(rows))
    ELSE << >>

\* C9: a Save error changes nothing else.  By the time a flush returns it
\* has cleared every shard once and passed every record it drained to Save,
\* whatever Save returned.  For every shard, the records passed to Save,
\* then those flush still holds, then those pending are exactly the records
\* pushed to it, in push order: a failed chunk is not queued again and not
\* passed to Save again.  A step that calls Save or returns from it changes
\* no shard and no result of a Push call.
C9_SaveErrorIsSkipped ==
    /\ [](/\ \A i \in DOMAIN drained :
               DrainFinished(i) =>
                   RowsOfCalls(SavesOf(drained[i].cycle, drained[i].queue))
                       = drained[i].rows
          /\ \A n \in 1..cycle :
               FlushReturned(n) =>
                   \A q \in QueueIds : Cardinality(ClearsOf(n, q)) = 1
          /\ \A q \in QueueIds :
               RowsOfCalls(AllSavesOf(q)) \o HeldOf(q) \o queues[q]
                   = pushed[q])
    /\ [][saved' # saved => (queues' = queues /\ ret' = ret)]_vars

\* The first of three chunks of shard 0 failed, the flush has returned and
\* has saved from shard 1 as well.
C9_Witness ==
    /\ FlushIdle
    /\ \E i \in DOMAIN saved :
           /\ saved[i].status = "error"
           /\ saved[i].queue = 0
           /\ Len(SavesOf(saved[i].cycle, 0)) = 3
           /\ SavesOf(saved[i].cycle, 0)[1] = i
           /\ Len(SavesOf(saved[i].cycle, 1)) >= 1

----------------------------------------------------------------------------
(* C10 *)

\* C10: a Push call that finds the engine disabled returns errJobDisabled
\* and changes neither qIndex nor any shard nor the caller's position, and
\* its record is never in a shard, in the rows flush holds or in a Save call.
C10_DisabledPushDoesNotRoute ==
    /\ [][(~enabled /\ PushStarts) =>
             /\ ret' = Append(ret, "errJobDisabled")
             /\ qIndex' = qIndex
             /\ queues' = queues
             /\ pushPc' = pushPc
             /\ saved' = saved]_vars
    /\ [](\A c \in DOMAIN ret :
             ret[c] = "errJobDisabled" =>
                 /\ ShardsHolding(c) = {}
                 /\ CallsHolding(c) = {}
                 /\ c \notin Range(rows))

\* A Push was rejected while a record was still pending in a shard.
C10_Witness ==
    /\ \E c \in DOMAIN ret : ret[c] = "errJobDisabled"
    /\ \E i \in QueueIds : queues[i] # << >>
    /\ qIndex # NewUint32

----------------------------------------------------------------------------
(* C11 *)

\* C11: when Push returns errJobDisabled to the /ping handler, the handler
\* answers with a rejection, not with the success response.
C11_DisabledPushIsRejected ==
    \A c \in DOMAIN ret : ret[c] = "errJobDisabled" => resp[c] # StatusOK

----------------------------------------------------------------------------
(* C12 *)

\* a is the first Len(a) elements of b.
IsPrefix(a, b) == Len(a) <= Len(b) /\ a = SubSeq(b, 1, Len(a))

\* The records of shard q passed to Save by calls 1..n, in call order.
RECURSIVE SavedOf(_, _)
SavedOf(n, q) ==
    IF n = 0 THEN << >>
    ELSE IF saved[n].queue = q THEN SavedOf(n - 1, q) \o saved[n].rows
    ELSE SavedOf(n - 1, q)

\* C12: within one shard push order is kept through to storage.  The
\* records of shard q passed to Save so far, in call order and in slice
\* order, are a prefix of the records appended to q in append order: a
\* record whose Queue.Push returned before another's began is never handed
\* to Save after it, over any number of flushes and whatever pushes
\* interleave with the drains.
C12_PushOrderIsKept ==
    [](\A q \in QueueIds : IsPrefix(SavedOf(Len(saved), q), pushed[q]))

\* Two Save calls of different flushes for one shard, whose first drain had
\* a Push land between the length read and the removal.
C12_Witness ==
    \E q \in QueueIds :
        /\ Len(AllSavesOf(q)) >= 2
        /\ saved[AllSavesOf(q)[1]].cycle # saved[AllSavesOf(q)[2]].cycle
        /\ \E i \in DOMAIN drained :
               /\ drained[i].queue = q
               /\ drained[i].rows # << >>
               /\ drained[i].left # << >>

----------------------------------------------------------------------------
(* C13 *)

\* The drained records flush holds and has not yet passed to Save.
Held == HeldOf(k)

\* C13: every record whose Push returned nil is in exactly one place:
\* pending in one shard, held by flush, or already passed to Save.  The
\* three together hold each accepted record once and nothing else, so no
\* record is pending in two shards or passed to Save twice.
C13_ExactlyOnePlace ==
    [](
        LET everywhere == SavedRows \o Held \o PendingRows
        IN  /\ NoDuplicates(everywhere)
            /\ Range(everywhere) = Accepted
    )

\* One accepted record in each of the three places, during the shutdown
\* flush.
C13_Witness ==
    /\ final
    /\ SavedRows # << >>
    /\ Held # << >>
    /\ PendingRows # << >>

----------------------------------------------------------------------------
(* C14 *)

\* The Save calls that have not returned.
SavesInProgress == {i \in DOMAIN saved : saved[i].status = "running"}

\* C14: the flushes of Run are sequential.  A Save call in progress is the
\* latest call and belongs to the flush now running, so there is at most one;
\* and a flush has started only after the one before it returned: the Clear
\* calls so far are those of flush 1 on shards 0..N-1 in order, then those
\* of flush 2, and so on, every earlier flush complete, and the Save calls
\* of a flush come before those of any later flush.
C14_FlushesAreSequential ==
    [](
        /\ \A i \in DOMAIN saved :
               saved[i].status = "running" =>
                   i = Len(saved) /\ runPc = "saving" /\ saved[i].cycle = cycle
        /\ Len(drained) >= (cycle - 1) * numQueues
        /\ \A i \in DOMAIN drained :
               /\ drained[i].cycle = ((i - 1) \div numQueues) + 1
               /\ drained[i].queue = (i - 1) % numQueues
        /\ \A i \in 1..(Len(saved) - 1) :
               saved[i].cycle <= saved[i + 1].cycle
    )

\* A Save call of the shutdown flush is in progress after a tick flush that
\* made a Save call too.
C14_Witness ==
    /\ final
    /\ runPc = "saving"
    /\ \E i \in DOMAIN saved : saved[i].cycle < cycle

----------------------------------------------------------------------------
(* C15 *)

\* C15: the shutdown signal does not cancel the saves.  The context given
\* to a Save call is not cancelled when the call starts nor while it runs,
\* also in the flush that follows the cancellation of Run's ctx; it is
\* cancelled by finish() alone, once the shutdown flush has returned.
C15_SavesAreNotCancelled ==
    [](
        /\ \A i \in DOMAIN saved : ~saved[i].ctxCancelled
        /\ runPc = "saving" => ~SaveContextCancelled
        /\ jobDone => final /\ runPc = "exited" /\ SavesInProgress = {}
    )

\* A Save call of the shutdown flush is running: Run's ctx is cancelled,
\* the job's own context is not.
C15_Witness ==
    /\ final
    /\ ctxDone
    /\ runPc = "saving"
    /\ ~saved[Len(saved)].ctxCancelled

----------------------------------------------------------------------------
(* C16 *)

\* Caller p leaves Queue.Push in this step.
PushReturns(p) == pushPc[p] = "routed" /\ pushPc'[p] # "routed"

\* C16: a Push call is rejected only when it reads enabled = false.  A call
\* that reads true is never rejected; when it returns, it returns nil and
\* its record has been appended to the tail of the one shard it was routed
\* to, all other shards left as they were, whatever the shard holds and
\* whatever flush is doing.
C16_EnabledPushAppends ==
    [][/\ (enabled /\ PushStarts) => ret'[Len(ret')] = "running"
       /\ \A c \in DOMAIN ret :
              ret[c] = "running" => ret'[c] \in {"running", "nil"}
       /\ \A p \in Pushers :
              PushReturns(p) =>
                  /\ ret'[pushRec[p]] = "nil"
                  /\ queues' = [queues EXCEPT ![pushIdx[p]] =
                                    Append(@, pushRec[p])]]_vars

\* Every call so far returned nil, and one of them appended to a shard that
\* held a record while Clear was between its length read and its removal.
C16_Witness ==
    /\ Len(ret) >= 2
    /\ \A c \in DOMAIN ret : ret[c] = "nil"
    /\ \E i \in DOMAIN drained :
           /\ drained[i].rows # << >>
           /\ drained[i].left # << >>
           /\ Len(pushed[drained[i].queue]) >= 2

----------------------------------------------------------------------------
(* C17 *)

\* Caller p takes its counter value in this step.
PushRoutes(p) == pushPc[p] = "checked" /\ pushPc'[p] = "routed"

\* The records routed to shard q: appended to it, or about to be.
Routed(q) ==
    Len(pushed[q])
        + Cardinality({p \in Pushers : pushPc[p] = "routed" /\ pushIdx[p] = q})

\* C17: round-robin routing with wrap-around.  The counter changes only
\* when a Push call increments it, by exactly one modulo 2^32; the call is
\* routed to the shard that the low bits of its own incremented value name,
\* which is one of the N shards and is the shard after the one the previous
\* value named, also when the counter carries or wraps from 2^32 - 1 to 0.
\* So, with no drain, the numbers of records routed to any two shards differ
\* by at most one.
C17_RoundRobin ==
    /\ [][/\ qIndex' # qIndex =>
                 /\ \E p \in Pushers : PushRoutes(p)
                 /\ qIndex'.lo = (qIndex.lo + 1) % HalfMod
                 /\ qIndex'.hi = IF qIndex.lo = HalfMod - 1
                                 THEN (qIndex.hi + 1) % HalfMod
                                 ELSE qIndex.hi
                 /\ Masked(qIndex') = (Masked(qIndex) + 1) % numQueues
          /\ \A p \in Pushers :
                 PushRoutes(p) =>
                     /\ qIndex' # qIndex
                     /\ pushIdx'[p] = Masked(qIndex')
                     /\ pushIdx'[p] \in QueueIds]_vars
    /\ [](\A q1, q2 \in QueueIds : Routed(q1) - Routed(q2) <= 1)

\* Three calls have taken the values 2^32 - 1, 0 and 1 and have appended
\* their records.
C17_Witness ==
    /\ qIndex = [hi |-> 0, lo |-> 1]
    /\ \A c \in DOMAIN ret : ret[c] = "nil"
    /\ Len(ret) = 3

----------------------------------------------------------------------------
(* C18 *)

\* The Clear calls of the flush now running, or of the last one.
ClearsOfCycle == {i \in DOMAIN drained : drained[i].cycle = cycle}

\* The Clear call whose records Save call s was given: flush number n
\* clears shards 0..N-1 in order.
DrainOf(s) == drained[(s.cycle - 1) * numQueues + s.queue + 1]

\* C18: an empty flush does nothing.  No Save call is ever given an empty
\* slice, and every Save call follows a Clear call of its flush on its
\* shard that took records, so a drain that took none is followed by no
\* Save call; and when a flush that found every shard empty
\* has returned, with no Push call during it, it has made no Save call at
\* all and every shard is empty.
C18_EmptyFlushIsNoOp ==
    [](
        /\ \A i \in DOMAIN saved : saved[i].rows # << >>
        /\ \A i \in DOMAIN saved : DrainOf(saved[i]).rows # << >>
        /\ (/\ QuietFlushDone
            /\ \A i \in ClearsOfCycle : drained[i].rows = << >>) =>
               /\ \A i \in DOMAIN saved : saved[i].cycle # cycle
               /\ queues = NewQueues
    )

\* The shutdown flush found every shard empty and has returned, after a
\* tick flush that had records to save.
C18_Witness ==
    /\ QuietFlushDone
    /\ final
    /\ Cardinality(ClearsOfCycle) = numQueues
    /\ \A i \in ClearsOfCycle : drained[i].rows = << >>
    /\ saved # << >>

----------------------------------------------------------------------------
(* C19 *)

\* A step of Run or of the flush it called.
RunSteps == <<runPc, k, length, rows, drained, saved>>' #
                <<runPc, k, length, rows, drained, saved>>

\* C19: a tick flush leaves the scheduler as it was.  Every step of Run
\* before the ctx.Done() branch is taken leaves enabled true, the counter
\* as it is and Done unsignalled, and keeps Run in its loop: when the tick
\* flush returns Run is back at the select, where the ctx.Done() branch can
\* be taken as soon as ctx is cancelled.  Only the ctx.Done() branch stores
\* false to enabled, and only after it does Run leave the loop.
C19_TickFlushKeepsScheduler ==
    /\ [][/\ (RunSteps /\ ~final') =>
                 /\ enabled /\ enabled'
                 /\ qIndex' = qIndex
                 /\ ~jobDone /\ ~jobDone'
                 /\ runPc' \in {"select", "len", "lock", "save", "saving"}
          /\ (enabled /\ ~enabled') =>
                 runPc = "select" /\ ctxDone /\ ~final /\ final'
          /\ (runPc # "finish" /\ runPc' = "finish") => final]_vars
    /\ []((runPc = "select" /\ ctxDone) => ENABLED RunCtxDone)

\* A tick flush that saved records has returned and Run waits in its select
\* again, while a Push call that started during the flush holds a counter
\* value.
C19_Witness ==
    /\ ticks = 1
    /\ runPc = "select"
    /\ ~final
    /\ enabled
    /\ saved # << >>
    /\ \E p \in Pushers : pushPc[p] = "routed"

----------------------------------------------------------------------------
(* C20 *)

\* Only Run's flush has called Clear so far.
OneDrainer == other.calls = 0

\* C20: with Run's flush as the only caller of Clear, the length Clear read
\* under the read lock is at most len(q.items) when it holds the write lock,
\* and the first `length` items are still the ones that were there at the
\* read; so Clear returns exactly those, in order, and leaves exactly the
\* records pushed after the read.  (With a second caller of Clear the
\* length can be above len(q.items): C20_Witness.)
C20_StaleLengthIsSafe ==
    /\ []((OneDrainer /\ runPc = "lock") =>
              /\ length <= Len(queues[k])
              /\ length = Len(seen)
              /\ SubSeq(queues[k], 1, length) = seen)
    /\ [][(OneDrainer /\ ClearReturns) =>
              /\ runPc' # "panic"
              /\ rows' = seen
              /\ seen \o queues'[k] = queues[k]]_vars

\* Run's Clear has once returned a stale but safe length's worth of records
\* while it was the only caller, a Push having landed between its read and
\* its removal; now a second caller has cleared the queue between the two,
\* and the length Run's Clear holds is above len(q.items).
C20_Witness ==
    /\ \E i \in 1..other.drainsBefore :
           drained[i].rows # << >> /\ drained[i].left # << >>
    /\ other.calls >= 1
    /\ runPc = "lock"
    /\ length > Len(queues[k])

=============================================================================
